---- MODULE Spec2Model ----
(***************************************************************************)
(* DRTP file transfer over UDP (application.py): packet codec, three-way   *)
(* handshake, sliding-window sender (client), receiver (server), teardown. *)
(* The client and the server are sequential programs; each blocking        *)
(* recvfrom, together with the code that runs up to the next blocking      *)
(* call, is one action.  The network is a pair of datagram queues that the *)
(* environment may deliver from out of order and drop from.                *)
(***************************************************************************)
EXTENDS Integers, Sequences, FiniteSets

\* ---- bounds of the model ----
MaxChunks == 3
MaxWindow == 2
BigRequest == 20
MaxFaults == 2
MaxTimeouts == 2
MaxPayload == 2

\* ---- constants of application.py ----
FLAG_ACK == 1
FLAG_SYN == 2
FLAG_FIN == 4
ServerWindow == 15

VARIABLES
    requested,      \* client(): the window_size argument (-w)
    total,          \* client(): total = len(chunks)
    discard_flag,   \* server(): the discard_flag argument (--discard)
    cstep,          \* codec: what has been done to the arguments below
    cin,            \* codec: the arguments of create_packet
    cwire,          \* codec: the result of create_packet
    cout,           \* codec: the result of parse_packet
    cpc,            \* client(): position in the function
    window_size,    \* client(): window_size local
    base,           \* client(): base
    next_seq,       \* client(): next_seq
    cOutcome,       \* client(): how the function ended
    cClosed,        \* client(): client_socket.close() has run (line 183)
    spc,            \* server(): position in the function
    discarded,      \* server(): discarded
    output,         \* server(): bytes written to f
    sOutcome,       \* server(): how the function ended
    toS,            \* datagrams sent to the server socket, not yet received
    toC,            \* datagrams sent to the client socket, not yet received
    sentC,          \* history: every datagram the client has passed to sendto
    sentS,          \* history: every datagram the server has passed to sendto
    synCount,       \* history: number of SYN datagrams the client has sent (saturating)
    finCount,       \* history: number of FIN datagrams the client has sent (saturating)
    gotSynAck,      \* history: the client has received a datagram with SYN and ACK set
    acksSeen,       \* history: ack numbers of the ACK datagrams the client has received
    sRecvFlags,     \* history: flags of the datagrams the server received in its handshake
    acked,          \* history: sequence numbers the server has acknowledged
    accepted,       \* history: the data packets the server has taken, in receipt order
    discardLog,     \* history: the packets the loss simulation has discarded, in order
    received,       \* history: number of datagrams the server's receive loop has read
    faults,         \* history: faults of the network so far (a datagram lost, received
                    \* ahead of an older one, delayed past a timeout, or of other origin)
    strays,         \* history: the faults that were datagrams of other origin
    timeouts,       \* history: timeouts of the client's ACK wait (saturating)
    afterTimeout,   \* history: the ACK wait has timed out and has not returned a datagram since
    resent          \* history: the datagrams sent since that timeout, in order

params == <<requested, total, discard_flag, cstep, cin, cwire, cout>>
cvars == <<cpc, window_size, base, next_seq, cOutcome, cClosed>>
svars == <<spc, discarded, output, sOutcome>>
net == <<toS, toC>>
chist == <<sentC, synCount, finCount, gotSynAck, acksSeen, timeouts, afterTimeout, resent>>
shist == <<sentS, sRecvFlags, acked, accepted, discardLog, received>>
ehist == <<faults, strays>>
vars == <<params, cvars, svars, net, chist, shist, ehist>>

\* ---- helpers ----
Min(a, b) == IF a <= b THEN a ELSE b

\* python: flags & flag, for a single-bit flag
FlagSet(flags, flag) == (flags \div flag) % 2 = 1

\* an unpacking that reads the low byte first
Unpack16LittleEndian(b, off) == b[off] + b[off + 1] * 256

\* struct '!H': one 16-bit unsigned field, big-endian
Pack16(v) == <<(v \div 256) % 256, v % 256>>

Unpack16(b, off) == b[off] * 256 + b[off + 1]

create_packet(seq_num, ack_num, flags, recv_window, data) ==
    Pack16(seq_num) \o Pack16(ack_num) \o Pack16(flags) \o Pack16(recv_window) \o data

parse_packet(packet) ==
    [seq_num |-> Unpack16(packet, 1),
     ack_num |-> Unpack16(packet, 3),
     flags |-> Unpack16(packet, 5),
     recv_window |-> Unpack16(packet, 7),
     data |-> SubSeq(packet, 9, Len(packet))]

\* a decoder that takes any datagram with the 2 bytes of the first field
MalformedBelowTwo(packet) == Len(packet) < 2

\* parse_packet: struct.unpack('!HHHH', header) raises struct.error when the
\* header slice packet[:8] has fewer than 8 bytes
Malformed(packet) == Len(packet) < 8

\* chunks[i]: the i-th chunk of the file, never empty; one byte stands for the chunk's bytes
chunks == [i \in 0..(total - 1) |-> <<i + 1>>]

\* the file: its chunks in order
RECURSIVE FileUpTo(_)
FileUpTo(n) == IF n = 0 THEN <<>> ELSE FileUpTo(n - 1) \o chunks[n - 1]

File == FileUpTo(total)

\* the queue without its i-th datagram
Remove(q, i) == SubSeq(q, 1, i - 1) \o SubSeq(q, i + 1, Len(q))

Windows == (1..MaxWindow) \cup {BigRequest}

\* the fields of a packet, all zero and empty
NoPacket == [seq_num |-> 0, ack_num |-> 0, flags |-> 0, recv_window |-> 0, data |-> <<>>]

\* the state of both programs before their first step
Start ==
    /\ cpc = "start"
    /\ window_size = requested
    /\ base = 0
    /\ next_seq = 0
    /\ cOutcome = "none"
    /\ cClosed = FALSE
    /\ spc = "listen"
    /\ discarded = FALSE
    /\ output = <<>>
    /\ sOutcome = "none"
    /\ toS = <<>>
    /\ toC = <<>>
    /\ sentC = {}
    /\ sentS = {}
    /\ synCount = 0
    /\ finCount = 0
    /\ gotSynAck = FALSE
    /\ acksSeen = {}
    /\ sRecvFlags = <<>>
    /\ acked = {}
    /\ accepted = <<>>
    /\ discardLog = <<>>
    /\ received = 0
    /\ faults = 0
    /\ strays = 0
    /\ timeouts = 0
    /\ afterTimeout = FALSE
    /\ resent = <<>>

Init ==
    /\ requested \in Windows
    /\ total \in 0..MaxChunks
    /\ discard_flag \in BOOLEAN
    /\ cstep = "idle" /\ cin = NoPacket /\ cwire = <<>> /\ cout = NoPacket
    /\ Start

\* nothing is in flight: a receive that blocks now can only end by its timeout
Quiet == toS = <<>> /\ toC = <<>>

\* socket.timeout of a client recvfrom: TIMEOUT has passed with no datagram
\* received.  While a datagram is still in flight this is a fault of the
\* network: a delay longer than TIMEOUT.
ClientTimesOut ==
    /\ Quiet \/ faults < MaxFaults
    /\ faults' = IF Quiet THEN faults ELSE faults + 1
    /\ UNCHANGED strays

\* recvfrom returns the i-th datagram of queue q: the oldest one, or, as a fault
\* of the network, a younger one
Arrives(q, i) ==
    /\ i \in 1..Len(q)
    /\ i = 1 \/ faults < MaxFaults
    /\ faults' = IF i = 1 THEN faults ELSE faults + 1
    /\ UNCHANGED strays

\* a handshake test that accepts a reply with either flag
IsSynAckEither(flags) == FlagSet(flags, FLAG_SYN) \/ FlagSet(flags, FLAG_ACK)

\* client(): line 121, the test on the reply to the SYN
IsSynAck(flags) == FlagSet(flags, FLAG_SYN) /\ FlagSet(flags, FLAG_ACK)

\* an effective window that takes the server's advertisement as it is
EffectiveWindowAdvertised(w, recv_window) == recv_window

\* client(): line 123, the effective window
EffectiveWindow(w, recv_window) == Min(w, recv_window)

\* a loop that is left one acknowledgment early
LoopTopEarly(b, n, w) ==
    IF ~(b + 1 < total) THEN "teardown"
    ELSE IF n < b + w /\ n < total THEN "fill"
    ELSE "wait"

\* a loop whose Fill condition lets one packet more than the window be sent
LoopTopWide(b, n, w) ==
    IF ~(b < total) THEN "teardown"
    ELSE IF n <= b + w /\ n < total THEN "fill"
    ELSE "wait"

\* client(): the position reached from the top of the loop `while base < total`
\* with cursors b and n: the inner while loop sends, or the ACK wait blocks,
\* or the loop is left for the teardown
LoopTop(b, n, w) ==
    IF ~(b < total) THEN "teardown"
    ELSE IF n < b + w /\ n < total THEN "fill"
    ELSE "wait"

\* a new base that skips one sequence number
NewBaseSkip(b, ack_num) == ack_num + 2

\* client(): line 162, the new base on an ACK
NewBase(b, ack_num) == ack_num + 1

\* a retransmission that starts after the first unacknowledged packet
RetransmitFromSecond(b, n) == Min(b + 1, n)

\* client(): line 165, the value of next_seq after a timeout
RetransmitFrom(b, n) == b

\* client(): sendto of the SYN
ClientSendSyn ==
    /\ cpc = "start"
    /\ LET pkt == create_packet(0, 0, FLAG_SYN, window_size, <<>>) IN
        /\ toS' = Append(toS, pkt)
        /\ sentC' = sentC \cup {pkt}
    /\ synCount' = Min(synCount + 1, 2)
    /\ cpc' = "hs_wait"
    /\ UNCHANGED <<params, window_size, base, next_seq, cOutcome, cClosed, svars, toC>>
    /\ UNCHANGED <<finCount, gotSynAck, acksSeen, timeouts, afterTimeout, resent, shist, ehist>>

\* client(): recvfrom of the reply to the SYN, the handshake test, the final ACK,
\* reading the file and initialising the cursors
ClientHandshakeRecv ==
    /\ cpc = "hs_wait"
    /\ UNCHANGED cClosed
    /\ \E i \in 1..Len(toC) :
        /\ Arrives(toC, i)
        /\ LET p == parse_packet(toC[i]) IN
            /\ toC' = Remove(toC, i)
            /\ gotSynAck' = (gotSynAck \/ p.flags % 4 = 3)
            /\ IF IsSynAck(p.flags)
               THEN LET w == EffectiveWindow(window_size, p.recv_window)
                        pkt == create_packet(1, 0, FLAG_ACK, w, <<>>) IN
                    /\ window_size' = w
                    /\ toS' = Append(toS, pkt)
                    /\ sentC' = sentC \cup {pkt}
                    /\ base' = 0
                    /\ next_seq' = 0
                    /\ cpc' = LoopTop(0, 0, w)
                    /\ UNCHANGED cOutcome
               ELSE /\ cpc' = "done"
                    /\ cOutcome' = "handshake_unexpected"
                    /\ UNCHANGED <<window_size, base, next_seq, toS, sentC>>
    /\ UNCHANGED <<params, svars, synCount, finCount, acksSeen, timeouts, afterTimeout, resent, shist>>

\* client(): the recvfrom of line 119 raises socket.timeout, which nothing catches
ClientHandshakeTimeout ==
    /\ cpc = "hs_wait"
    /\ UNCHANGED cClosed
    /\ ClientTimesOut
    /\ cpc' = "done"
    /\ cOutcome' = "handshake_timeout"
    /\ UNCHANGED <<params, window_size, base, next_seq, svars, net, chist, shist>>

\* client(): one iteration of the inner while loop (lines 150-154); LoopTop
\* has evaluated the loop's condition
ClientFill ==
    /\ cpc = "fill"
    /\ LET pkt == create_packet(next_seq, 0, 0, window_size, chunks[next_seq]) IN
        /\ toS' = Append(toS, pkt)
        /\ sentC' = sentC \cup {pkt}
        /\ resent' = IF afterTimeout THEN Append(resent, pkt) ELSE resent
    /\ next_seq' = next_seq + 1
    /\ cpc' = LoopTop(base, next_seq + 1, window_size)
    /\ UNCHANGED <<params, window_size, base, cOutcome, cClosed, svars, toC>>
    /\ UNCHANGED <<synCount, finCount, gotSynAck, acksSeen, timeouts, afterTimeout, shist, ehist>>

\* client(): recvfrom of line 158 returns a datagram (lines 158-162)
ClientRecvAck ==
    /\ cpc = "wait"
    /\ \E i \in 1..Len(toC) :
        /\ Arrives(toC, i)
        /\ toC' = Remove(toC, i)
        /\ LET p == parse_packet(toC[i])
               b == IF FlagSet(p.flags, FLAG_ACK) THEN NewBase(base, p.ack_num) ELSE base IN
            IF Malformed(toC[i])
               THEN /\ cpc' = "done"
                    /\ cOutcome' = "malformed_in_loop"
                    /\ UNCHANGED <<base, acksSeen>>
               ELSE /\ base' = b
                    /\ acksSeen' = IF FlagSet(p.flags, FLAG_ACK) THEN acksSeen \cup {p.ack_num} ELSE acksSeen
                    /\ cpc' = LoopTop(b, next_seq, window_size)
                    /\ UNCHANGED cOutcome
    /\ afterTimeout' = FALSE
    /\ resent' = <<>>
    /\ UNCHANGED <<params, window_size, next_seq, cClosed, svars, toS>>
    /\ UNCHANGED <<sentC, synCount, finCount, gotSynAck, timeouts, shist>>

\* client(): recvfrom of line 158 raises socket.timeout (lines 163-165)
ClientTimeout ==
    /\ cpc = "wait"
    /\ ClientTimesOut
    /\ next_seq' = RetransmitFrom(base, next_seq)
    /\ timeouts' = Min(timeouts + 1, MaxTimeouts)
    /\ afterTimeout' = TRUE
    /\ resent' = <<>>
    /\ cpc' = LoopTop(base, RetransmitFrom(base, next_seq), window_size)
    /\ UNCHANGED <<params, window_size, base, cOutcome, cClosed, svars, net>>
    /\ UNCHANGED <<sentC, synCount, finCount, gotSynAck, acksSeen, shist>>

\* client(): sendto of the FIN (line 169)
ClientSendFin ==
    /\ cpc = "teardown"
    /\ LET pkt == create_packet(0, 0, FLAG_FIN, window_size, <<>>) IN
        /\ toS' = Append(toS, pkt)
        /\ sentC' = sentC \cup {pkt}
    /\ finCount' = Min(finCount + 1, 2)
    /\ cpc' = "fin_wait"
    /\ UNCHANGED <<params, window_size, base, next_seq, cOutcome, cClosed, svars, toC>>
    /\ UNCHANGED <<synCount, gotSynAck, acksSeen, timeouts, afterTimeout, resent, shist, ehist>>

\* client(): recvfrom of line 172 returns a datagram; the function runs to its
\* end, where the socket is closed (lines 173-183)
ClientFinRecv ==
    /\ cpc = "fin_wait"
    /\ \E i \in 1..Len(toC) :
        /\ Arrives(toC, i)
        /\ toC' = Remove(toC, i)
        /\ LET p == parse_packet(toC[i]) IN
            IF Malformed(toC[i])
               THEN /\ cOutcome' = "malformed_in_teardown"
                    /\ UNCHANGED cClosed
               ELSE /\ cOutcome' = IF FlagSet(p.flags, FLAG_ACK) /\ FlagSet(p.flags, FLAG_FIN)
                                   THEN "closed_fin_ack" ELSE "closed_no_fin_ack"
                    /\ cClosed' = TRUE
    /\ cpc' = "done"
    /\ UNCHANGED <<params, window_size, base, next_seq, svars, toS, chist, shist>>

\* client(): the recvfrom of line 172 raises socket.timeout, which nothing
\* catches: lines 173-183 do not run
ClientFinTimeout ==
    /\ cpc = "fin_wait"
    /\ UNCHANGED cClosed
    /\ ClientTimesOut
    /\ cpc' = "done"
    /\ cOutcome' = "teardown_timeout"
    /\ UNCHANGED <<params, window_size, base, next_seq, svars, net, chist, shist>>

Client ==
    \/ ClientSendSyn
    \/ ClientHandshakeRecv
    \/ ClientHandshakeTimeout
    \/ ClientFill
    \/ ClientRecvAck
    \/ ClientTimeout
    \/ ClientSendFin
    \/ ClientFinRecv
    \/ ClientFinTimeout

\* a test on the first datagram that looks at the wrong flag
IsSynWrongBit(flags) == FlagSet(flags, FLAG_FIN) \/ FlagSet(flags, FLAG_SYN)

\* server(): line 45, the test on the first datagram
IsSyn(flags) == FlagSet(flags, FLAG_SYN)

\* server(): line 51, the test on the second datagram
IsAck(flags) == FlagSet(flags, FLAG_ACK)

\* a loss simulation that does not remember that it has discarded
DiscardsAgain(flag, done, data) == flag /\ data # <<>>

\* server(): line 73, the loss simulation
Discards(flag, done, data) == flag /\ ~done /\ data # <<>>

\* an acknowledgment that names the next sequence number
DataAckNext(seq) == create_packet(0, seq + 1, FLAG_ACK, 0, <<>>)

\* server(): line 89, the acknowledgment of a data packet
DataAck(seq) == create_packet(0, seq, FLAG_ACK, 0, <<>>)

\* a FIN handler that stays in the receive loop
AfterFinLoop == "recv"

\* server(): line 84, the break after the FIN|ACK: the position after a FIN
AfterFin == "done"

\* server(): line 82, the reply to a FIN
FinAck == create_packet(0, 0, FLAG_FIN + FLAG_ACK, 0, <<>>)

\* server(): the first recvfrom (lines 43-48 and 59-61)
ServerRecvSyn ==
    /\ spc = "listen"
    /\ \E i \in 1..Len(toS) :
        /\ Arrives(toS, i)
        /\ LET p == parse_packet(toS[i]) IN
            /\ toS' = Remove(toS, i)
            /\ sRecvFlags' = Append(sRecvFlags, p.flags)
            /\ IF IsSyn(p.flags)
               THEN LET pkt == create_packet(0, 0, FLAG_SYN + FLAG_ACK, ServerWindow, <<>>) IN
                    /\ toC' = Append(toC, pkt)
                    /\ sentS' = sentS \cup {pkt}
                    /\ spc' = "hs_ack_wait"
                    /\ UNCHANGED sOutcome
               ELSE /\ spc' = "done"
                    /\ sOutcome' = "handshake_not_syn"
                    /\ UNCHANGED <<toC, sentS>>
    /\ UNCHANGED <<params, cvars, discarded, output, chist, acked, accepted, discardLog, received>>

\* server(): the second recvfrom (lines 49-58), then the output file is opened
ServerRecvAck ==
    /\ spc = "hs_ack_wait"
    /\ \E i \in 1..Len(toS) :
        /\ Arrives(toS, i)
        /\ LET p == parse_packet(toS[i]) IN
            /\ toS' = Remove(toS, i)
            /\ sRecvFlags' = Append(sRecvFlags, p.flags)
            /\ IF IsAck(p.flags)
               THEN /\ spc' = "recv"
                    /\ UNCHANGED sOutcome
               ELSE /\ spc' = "done"
                    /\ sOutcome' = "handshake_invalid_ack"
    /\ UNCHANGED <<params, cvars, discarded, output, toC, chist, sentS, acked, accepted, discardLog, received>>

\* server(): lines 72-90, the loop's body once the datagram has been decoded
ServerTakes(p) ==
    IF Discards(discard_flag, discarded, p.data)
    THEN /\ discarded' = TRUE
         /\ discardLog' = Append(discardLog,
                 [seq |-> p.seq_num, flags |-> p.flags, data |-> p.data,
                  at |-> Len(accepted)])
         /\ UNCHANGED <<spc, sOutcome, output, toC, sentS, acked, accepted>>
    ELSE IF FlagSet(p.flags, FLAG_FIN)
    THEN /\ toC' = Append(toC, FinAck)
         /\ sentS' = sentS \cup {FinAck}
         /\ spc' = AfterFin
         /\ sOutcome' = "fin"
         /\ UNCHANGED <<discarded, output, acked, accepted, discardLog>>
    ELSE /\ toC' = Append(toC, DataAck(p.seq_num))
         /\ sentS' = sentS \cup {DataAck(p.seq_num)}
         /\ acked' = acked \cup {p.seq_num}
         /\ accepted' = Append(accepted, [seq |-> p.seq_num, data |-> p.data])
         /\ output' = output \o p.data
         /\ UNCHANGED <<spc, sOutcome, discarded, discardLog>>

\* server(): one iteration of the receive loop (lines 67-90).  The server socket
\* has no timeout set, so its recvfrom never raises socket.timeout.
ServerRecv ==
    /\ spc = "recv"
    /\ \E i \in 1..Len(toS) :
        /\ Arrives(toS, i)
        /\ toS' = Remove(toS, i)
        /\ LET p == parse_packet(toS[i]) IN
            IF Malformed(toS[i])
               THEN /\ spc' = "done"
                    /\ sOutcome' = "malformed_in_loop"
                    /\ UNCHANGED <<discarded, output, toC, sentS, acked, accepted>>
                    /\ UNCHANGED <<discardLog, received>>
               ELSE /\ received' = received + 1
                    /\ ServerTakes(p)
    /\ UNCHANGED <<params, cvars, chist, sRecvFlags>>

\* server(): the function has returned (lines 58, 61, 100): a datagram that
\* arrives for its port is received by nobody
ServerGone ==
    /\ spc = "done"
    /\ toS # <<>>
    /\ toS' = Tail(toS)
    /\ UNCHANGED <<params, cvars, svars, toC, chist, shist, ehist>>

Server ==
    \/ ServerRecvSyn
    \/ ServerRecvAck
    \/ ServerRecv
    \/ ServerGone

\* the network loses a datagram
Drop ==
    /\ faults < MaxFaults
    /\ faults' = faults + 1
    /\ \/ \E i \in 1..Len(toS) : toS' = Remove(toS, i) /\ UNCHANGED toC
       \/ \E i \in 1..Len(toC) : toC' = Remove(toC, i) /\ UNCHANGED toS
    /\ UNCHANGED <<params, cvars, svars, chist, shist, strays>>

\* datagrams of other origin than the two endpoints: header only, one of the
\* flag words with no SYN
StrayPackets == {create_packet(0, 0, f, 0, <<>>) : f \in {0, FLAG_ACK, FLAG_FIN}}

\* a datagram of other origin that is shorter than a header
ShortPacket == <<0, 0, 0>>

\* a datagram of other origin arrives at a socket: a header while the socket
\* waits in its handshake, a short datagram while it waits in its data loop
Stray ==
    /\ faults < MaxFaults
    /\ faults' = faults + 1
    /\ strays' = strays + 1
    /\ \/ \E pkt \in StrayPackets :
            \/ spc = "listen" /\ toS' = Append(toS, pkt) /\ UNCHANGED toC
            \/ cpc = "hs_wait" /\ toC' = Append(toC, pkt) /\ UNCHANGED toS
       \/ spc = "recv" /\ toS' = Append(toS, ShortPacket) /\ UNCHANGED toC
       \/ cpc = "wait" /\ toC' = Append(toC, ShortPacket) /\ UNCHANGED toS
    /\ UNCHANGED <<params, cvars, svars, chist, shist>>

Network ==
    \/ Drop
    \/ Stray

Next ==
    \/ Client
    \/ Server
    \/ Network

Spec == Init /\ [][Next]_vars

\* ---- the packet codec on its own ----
\* 16-bit unsigned header values: the ends of the range and both sides of the
\* byte boundary
HeaderValues == {0, 255, 256, 65535}

\* payloads of up to n bytes
RECURSIVE PayloadsUpTo(_)
PayloadsUpTo(n) ==
    IF n = 0 THEN {<<>>}
    ELSE PayloadsUpTo(n - 1)
            \cup {Append(d, b) : d \in {x \in PayloadsUpTo(n - 1) : Len(x) = n - 1}, b \in {0, 255}}

CodecInit ==
    /\ requested = 1 /\ total = 0 /\ discard_flag = FALSE
    /\ cstep = "input"
    /\ cin \in [seq_num : HeaderValues, ack_num : HeaderValues, flags : HeaderValues,
                recv_window : HeaderValues, data : PayloadsUpTo(MaxPayload)]
    /\ cwire = <<>>
    /\ cout = NoPacket
    /\ Start

\* create_packet applied to the arguments
Encode ==
    /\ cstep = "input"
    /\ cwire' = create_packet(cin.seq_num, cin.ack_num, cin.flags, cin.recv_window, cin.data)
    /\ cstep' = "encoded"
    /\ UNCHANGED <<requested, total, discard_flag, cin, cout>>
    /\ UNCHANGED <<cvars, svars, net, chist, shist, ehist>>

\* parse_packet applied to the datagram
Decode ==
    /\ cstep = "encoded"
    /\ cout' = parse_packet(cwire)
    /\ cstep' = "decoded"
    /\ UNCHANGED <<requested, total, discard_flag, cin, cwire>>
    /\ UNCHANGED <<cvars, svars, net, chist, shist, ehist>>

CodecNext ==
    \/ Encode
    \/ Decode

CodecSpec == CodecInit /\ [][CodecNext]_vars

\* Fairness: each endpoint is a running program, so a step of it that stays
\* possible is taken; a datagram in flight to a blocked recvfrom is received.
\* The faults of the network (Drop, Stray, early timeouts, overtaking) are
\* bounded by MaxFaults, so every behaviour has finitely many of them.
FairSpec == Spec /\ WF_vars(Client) /\ WF_vars(Server)

\* ---- what the claims speak of ----
SynPacket == create_packet(0, 0, FLAG_SYN, requested, <<>>)

\* the network has done nothing to this run: nothing lost, late, overtaken or added
NoFault == faults = 0

\* only the two endpoints have sent datagrams
NoStray == strays = 0

\* the client is in its transmission loop
InLoop == cpc \in {"fill", "wait"}

Established == cpc \in {"fill", "wait", "teardown", "fin_wait"}
                \/ cOutcome = "malformed_in_loop"
                \/ cOutcome \in {"closed_fin_ack", "closed_no_fin_ack", "teardown_timeout",
                                 "malformed_in_teardown"}

LeftLoop == cpc \in {"teardown", "fin_wait"}
                \/ cOutcome \in {"closed_fin_ack", "closed_no_fin_ack", "teardown_timeout",
                                 "malformed_in_teardown"}

\* the payload of chunk s is somewhere in the server's output
Written(s) == \E k \in 1..Len(output) : <<output[k]>> = chunks[s]

C2_OneDiscard ==
    (discard_flag /\ discarded /\ NoFault) =>
        /\ LeftLoop => timeouts <= window_size
        /\ sOutcome = "fin" => output = File

\* C3: whatever the network loses, delays or reorders (loss simulation off),
\* once the client has sent its FIN and the server has processed it the
\* server's output is the file.
C3_ExactUnderFaults ==
    (NoStray /\ ~discard_flag /\ finCount > 0 /\ sOutcome = "fin") => output = File

\* C4: no step of the client decreases base, and a step that changes base sets
\* it from the ack number of an ACK the client has received.
C4_BaseMonotone ==
    [][NoStray => /\ base' >= base
                  /\ base' # base => (base' - 1) \in acksSeen']_vars

\* C5: in every state of the transmission loop,
\* base <= next_seq <= base + window_size and next_seq <= total.
C5_WindowInvariant ==
    (NoStray /\ InLoop) =>
              /\ base <= next_seq
              /\ next_seq <= base + window_size
              /\ next_seq <= total

\* C6: every sequence number below base has been acknowledged and written by
\* the server (stated with the loss simulation off).
C6_BaseIsLowestUnacked ==
    (NoStray /\ ~discard_flag) => \A s \in 0..(base - 1) : s \in acked /\ s < total /\ Written(s)

\* C7: after the handshake the client's window is min(requested, advertised),
\* the final handshake ACK and every DATA packet carry it in recv_window, and it
\* stays so for the rest of the run; 5 against 15 gives 5, 20 against 10 gives 10.
C7_EffectiveWindow ==
    /\ Established =>
        /\ window_size = Min(requested, ServerWindow)
        /\ \A pkt \in sentC \ {SynPacket} : parse_packet(pkt).recv_window = window_size
    /\ EffectiveWindow(5, 15) = 5
    /\ EffectiveWindow(20, 10) = 10

C7_Witness ==
    /\ cpc = "wait" /\ requested = BigRequest /\ window_size = ServerWindow
    /\ create_packet(1, 0, FLAG_ACK, ServerWindow, <<>>) \in sentC
    /\ create_packet(0, 0, 0, ServerWindow, <<1>>) \in sentC

\* C8: when the first datagram the server receives has no SYN flag, the server
\* has ended as a failed handshake, has sent nothing and has written nothing.
C8_NonSynRejected ==
    (Len(sRecvFlags) >= 1 /\ (sRecvFlags[1] \div 2) % 2 = 0) =>
        /\ spc = "done" /\ sOutcome = "handshake_not_syn"
        /\ sentS = {} /\ acked = {} /\ output = <<>>

C8_Witness ==
    /\ sRecvFlags = <<FLAG_FIN>> /\ sOutcome = "handshake_not_syn"
    /\ SynPacket \in sentC

\* C9: the client sends nothing but its one SYN before it has received a
\* SYN|ACK; when the reply is another packet or the wait times out it ends as
\* a failed handshake with that single SYN sent.  The server acknowledges and
\* writes nothing before it has received a SYN and then an ACK.
C9_NoDataBeforeHandshake ==
    /\ sentC \ {SynPacket} # {} => gotSynAck
    /\ synCount <= 1
    /\ (cpc = "done" /\ ~gotSynAck) =>
            cOutcome \in {"handshake_unexpected", "handshake_timeout"}
    /\ cOutcome \in {"handshake_unexpected", "handshake_timeout"} =>
            sentC = {SynPacket} /\ finCount = 0
    /\ (output # <<>> \/ acked # {} \/ \E s \in 0..MaxChunks : DataAck(s) \in sentS) =>
            /\ Len(sRecvFlags) = 2
            /\ (sRecvFlags[1] \div 2) % 2 = 1
            /\ sRecvFlags[2] % 2 = 1

C9_Witness ==
    /\ cOutcome = "handshake_unexpected" /\ sentC = {SynPacket} /\ ~gotSynAck
    /\ spc = "hs_ack_wait"

\* C10: under a fair network with finitely many faults, once the client is in
\* its data phase it eventually leaves the send loop and sends the FIN (stated
\* for the runs in which only the two endpoints send datagrams).
C10_EventuallyFin ==
    (NoStray /\ ~discard_flag /\ cpc \in {"fill", "wait", "teardown"})
        ~> (finCount > 0 \/ strays > 0)

\* C11: a server in its receive loop eventually leaves it, by the FIN or, when
\* no datagram arrives any more, by a receive timeout (stated for the runs in
\* which only the two endpoints send datagrams).
C11_ReceiverLeavesLoop ==
    (spc = "recv") ~> (spc = "done" \/ strays > 0)

\* C12: after its FIN the client sends nothing; the step in which the server
\* takes the FIN sends one FIN|ACK and writes nothing; from then on the
\* server sends, acknowledges, writes and receives nothing.
C12_QuietAfterTeardown ==
    [][/\ finCount > 0 => sentC' = sentC
       /\ (sOutcome # "fin" /\ sOutcome' = "fin") =>
            /\ toC' = Append(toC, create_packet(0, 0, FLAG_FIN + FLAG_ACK, 0, <<>>))
            /\ output' = output /\ acked' = acked
       /\ sOutcome = "fin" =>
            /\ sentS' = sentS /\ output' = output /\ acked' = acked
            /\ strays' = strays =>
                    (toC' = toC \/ \E i \in 1..Len(toC) : toC' = Remove(toC, i))
            /\ spc' = "done" /\ sOutcome' = "fin"]_vars

C12_Witness ==
    /\ cOutcome = "closed_fin_ack" /\ sOutcome = "fin" /\ spc = "done"
    /\ toS # <<>> /\ output # <<>>

\* C13: the client sends its FIN once; when it has ended after the FIN, by a
\* FIN|ACK or by the timeout of its wait, it has ended in an orderly way with
\* its socket closed.
C13_FinOnceThenClosed ==
    /\ finCount <= 1
    /\ (cOutcome = "closed_fin_ack") => cClosed
    /\ (strays = 0 /\ finCount = 1 /\ cpc = "done") => cClosed

\* the payloads of the first n packets of log, concatenated
RECURSIVE Payloads(_, _)
Payloads(log, n) == IF n = 0 THEN <<>> ELSE Payloads(log, n - 1) \o log[n].data

\* C14: the step in which the server takes a data packet, of whatever sequence
\* number, sends one ACK whose ack field is the packet's seq and appends the
\* packet's payload to the output; the output only grows, is the taken
\* payloads in receipt order, and every acknowledged seq belongs to a taken packet.
C14_AckAndAppendEach ==
    [][/\ Len(accepted') = Len(accepted) + 1 =>
            LET a == accepted'[Len(accepted')] IN
            /\ toC' = Append(toC, create_packet(0, a.seq, FLAG_ACK, 0, <<>>))
            /\ output' = output \o a.data
            /\ acked' = acked \cup {a.seq}
       /\ Len(accepted') = Len(accepted) => (output' = output /\ acked' = acked)
       /\ Len(output') >= Len(output) /\ SubSeq(output', 1, Len(output)) = output
       /\ output' = Payloads(accepted', Len(accepted'))
       /\ acked' = {accepted'[k].seq : k \in 1..Len(accepted')}]_vars

C14_Witness ==
    /\ Len(accepted) = 3 /\ accepted[1].seq = 1 /\ accepted[2].seq = 0 /\ accepted[3].seq = 0
    /\ output = <<2, 1, 1>> /\ acked = {0, 1}

\* C15: parse_packet(create_packet(seq, ack, flags, recv_window, payload)) is
\* (seq, ack, flags, recv_window, payload) for 16-bit unsigned header values,
\* and the datagram is 8 + len(payload) bytes long.
C15_CodecRoundTrip ==
    /\ cstep \in {"encoded", "decoded"} => Len(cwire) = 8 + Len(cin.data)
    /\ cstep = "decoded" => cout = cin

C15_Witness ==
    /\ cstep = "decoded"
    /\ cin = [seq_num |-> 256, ack_num |-> 65535, flags |-> 255, recv_window |-> 0,
              data |-> <<255, 0>>]
    /\ cwire = <<1, 0, 255, 255, 0, 255, 0, 0, 255, 0>>
    /\ cout = cin

\* the DATA packet of sequence number s (client(), line 152)
DataPacket(s) == create_packet(s, 0, 0, window_size, chunks[s])

\* C16: a timeout of the ACK wait leaves base alone, sets next_seq to base and
\* sends nothing itself; the Fill that follows sends exactly the packets
\* base .. min(base + window_size, total) - 1, in increasing order, each the
\* same datagram (same chunk) that was sent for that number before.
C16_TimeoutRetransmitsWindow ==
    /\ [][(cpc = "wait" /\ afterTimeout' /\ resent' = <<>>) =>
            /\ base' = base /\ next_seq' = base /\ cpc' = "fill"
            /\ toS' = toS /\ sentC' = sentC
            /\ \A s \in base..(Min(base + window_size, total) - 1) :
                    DataPacket(s) \in sentC]_vars
    /\ [](afterTimeout =>
            /\ Len(resent) = next_seq - base
            /\ resent = [k \in 1..Len(resent) |-> DataPacket(base + k - 1)]
            /\ cpc = "fill" => Len(resent) < Min(base + window_size, total) - base
            /\ cpc = "wait" => Len(resent) = Min(base + window_size, total) - base)

C16_Witness ==
    /\ afterTimeout /\ cpc = "wait" /\ total = 3 /\ window_size = 2
    /\ base = 1 /\ resent = <<DataPacket(1), DataPacket(2)>>

\* the DATA packets the client has sent so far
DataSent == {p \in sentC : parse_packet(p).flags = 0}

\* nothing lost, overtaken, late or stray, the loss simulation off, no timeout
Calm == NoFault /\ ~discard_flag /\ timeouts = 0

\* C17: in a run with no loss, no reordering and no timeout the client sends
\* each sequence number 0..N-1 once, in increasing order (a Fill step sends
\* next_seq, a number not sent before, and next_seq never goes back), never
\* has more than window_size packets past base, waits with a full window, moves
\* base by one per ACK received, and leaves the loop with base = N.
C17_CalmRunInOrder ==
    /\ [](Calm /\ (InLoop \/ LeftLoop) =>
            /\ DataSent = {DataPacket(s) : s \in 0..(next_seq - 1)}
            /\ 0 <= next_seq - base /\ next_seq - base <= window_size
            /\ cpc = "wait" => next_seq = Min(base + window_size, total)
            /\ acksSeen = 0..(base - 1)
            /\ LeftLoop => (base = total /\ next_seq = total))
    /\ [][(Calm' /\ InLoop) =>
            /\ next_seq' \in {next_seq, next_seq + 1}
            /\ next_seq' = next_seq + 1 =>
                    /\ next_seq < total /\ next_seq < base + window_size
                    /\ DataPacket(next_seq) \notin sentC
                    /\ sentC' = sentC \cup {DataPacket(next_seq)}
                    /\ toS' = Append(toS, DataPacket(next_seq))
            /\ next_seq' = next_seq => sentC' = sentC
            /\ base' \in {base, base + 1}
            /\ base' = base + 1 <=> acksSeen' = acksSeen \cup {base}
            /\ base' = base + 1 <=> (toC # <<>> /\ toC' = Tail(toC))]_vars

C17_Witness ==
    /\ Calm /\ total = 3 /\ window_size = 2 /\ cOutcome = "closed_fin_ack"
    /\ base = 3 /\ next_seq = 3 /\ acksSeen = {0, 1, 2}
    /\ DataSent = {DataPacket(0), DataPacket(1), DataPacket(2)}

\* C18: with the loss simulation on, the server discards one packet in the
\* session, the first packet with a payload that its receive loop reads; the
\* discarding step acknowledges and writes nothing; every other datagram the
\* loop reads is taken or is the FIN; no FIN is discarded.  With the simulation
\* off nothing is discarded.
C18_OneDiscard ==
    /\ [](/\ Len(discardLog) <= 1
          /\ discarded <=> discardLog # <<>>
          /\ ~discard_flag => discardLog = <<>>
          /\ \A k \in 1..Len(discardLog) :
                /\ discardLog[k].data # <<>>
                /\ ~FlagSet(discardLog[k].flags, FLAG_FIN)
                /\ \A j \in 1..discardLog[k].at : accepted[j].data = <<>>
          /\ (discard_flag /\ \E j \in 1..Len(accepted) : accepted[j].data # <<>>)
                => Len(discardLog) = 1
          /\ received = Len(discardLog) + Len(accepted)
                            + (IF sOutcome = "fin" THEN 1 ELSE 0))
    /\ [][Len(discardLog') # Len(discardLog) =>
            /\ received' = received + 1 /\ Len(toS') = Len(toS) - 1
            /\ output' = output /\ acked' = acked /\ accepted' = accepted
            /\ toC' = toC /\ sentS' = sentS /\ spc' = "recv"]_vars

C18_Witness ==
    /\ discard_flag /\ Len(discardLog) = 1 /\ discardLog[1].seq = 0
    /\ discardLog[1].at = 0 /\ 0 \in acked /\ Written(0) /\ sOutcome = "fin"

\* C19: a datagram shorter than 8 bytes that the server's receive loop or the
\* client's ACK wait reads (the oldest datagram waiting, read with no fault of
\* the network) is discarded: the loop goes on, and base, next_seq and the
\* output stay as they are.
C19_ShortDatagramDiscarded ==
    [][/\ (spc = "recv" /\ toS # <<>> /\ Malformed(Head(toS))
                /\ toS' = Tail(toS) /\ faults' = faults) =>
            (spc' = "recv" /\ output' = output /\ sOutcome' = sOutcome)
       /\ (cpc = "wait" /\ toC # <<>> /\ Malformed(Head(toC))
                /\ toC' = Tail(toC) /\ faults' = faults) =>
            (cpc' \in {"fill", "wait"} /\ base' = base /\ next_seq' = next_seq
                /\ cOutcome' = cOutcome)]_vars

\* every ACK the client has received names a sequence number of a DATA packet
\* that the client has sent
AcksOfSent == \A a \in acksSeen : \E p \in DataSent : parse_packet(p).seq_num = a

\* C20: provided every ACK the client has received acknowledges a sequence
\* number it has sent, 0 <= base <= total holds, the send loop is left with
\* base = total, and the FIN is sent only with base >= total.
C20_BaseWithinTotal ==
    AcksOfSent =>
        /\ 0 <= base /\ base <= total
        /\ LeftLoop => base = total
        /\ finCount > 0 => base >= total
        /\ \A p \in sentC : FlagSet(parse_packet(p).flags, FLAG_FIN) => base >= total

C20_Witness ==
    /\ AcksOfSent /\ total = 3 /\ base = 3 /\ finCount = 1 /\ faults > 0
    /\ acksSeen = {1, 2} /\ timeouts > 0
====
